---- MODULE Spec2Model ----
(***************************************************************************)
(* volcengine-concurrent-tts: the bounded concurrent batch executor        *)
(* (volcengine_client.py), the provider call it wraps (volc_tts.py) and    *)
(* the two HTTP services built on it (main.py, main_v2_upgraded.py).       *)
(*                                                                         *)
(* Scheduling is asyncio's: one event loop, coroutines run without         *)
(* interruption between suspension points.  An action of this module is    *)
(* one such uninterrupted run.  The suspension points of a unit of work    *)
(* are the acquire of a semaphore that has no free slot and the await of   *)
(* the provider's answer inside generate_audio_async.                      *)
(***************************************************************************)
EXTENDS Integers, Sequences, FiniteSets, TLC

\* ------------------------------------------------------------------ bounds

\* Longest task list a caller submits.
MaxTasks == 2

\* Largest capacity a library caller gives its client.
MaxConcurrency == 2

\* The batch calls that may be in progress at the same time.
Calls == {"c1", "c2"}

\* ------------------------------------------------------------ Python calls

\* f(**kwargs) binds when every keyword names a parameter of f and every
\* parameter without a default is given; otherwise the call raises TypeError
\* before the body of f runs.
CallBinds(kwargs, params, required) ==
    /\ kwargs \subseteq params
    /\ required \subseteq kwargs

\* def generate_audio_async(session, app_id, access_key, text, voice_type=...)
GenerateAudioParams == {"session", "app_id", "access_key", "text", "voice_type"}

GenerateAudioRequired == {"session", "app_id", "access_key", "text"}

\* The keywords _process_one_task passes to generate_audio_async.
ProcessOneTaskKwargs ==
    {"session", "app_id", "access_key", "secret_key", "text", "voice_type"}

\* def __init__(self, app_id, access_key, secret_key, concurrency=10)
ClientInitParams == {"app_id", "access_key", "secret_key", "concurrency"}

ClientInitRequired == {"app_id", "access_key", "secret_key"}

\* def generate_batch_async(self, tasks)
GenerateBatchAsyncParams == {"tasks"}

GenerateBatchAsyncRequired == {"tasks"}

\* create_client(app_id, access_key, secret_key, concurrency) passes all four.
CreateClientKwargs == {"app_id", "access_key", "secret_key", "concurrency"}

\* The keywords of a library caller's generate_batch_async(tasks).
LibraryBatchKwargs == {"tasks"}

\* ------------------------------------------------------------------ base64

\* A base64 text is a sequence of alphabet indexes 0..63; Pad is '='.
Pad == 64

RECURSIVE B64Encode(_)
\* base64.b64encode(bytes).decode('utf-8'): three bytes to four symbols, the
\* last group padded.
B64Encode(bs) ==
    IF Len(bs) = 0 THEN << >>
    ELSE IF Len(bs) = 1 THEN
        << bs[1] \div 4, (bs[1] % 4) * 16, Pad, Pad >>
    ELSE IF Len(bs) = 2 THEN
        << bs[1] \div 4, (bs[1] % 4) * 16 + (bs[2] \div 16),
           (bs[2] % 16) * 4, Pad >>
    ELSE
        << bs[1] \div 4, (bs[1] % 4) * 16 + (bs[2] \div 16),
           (bs[2] % 16) * 4 + (bs[3] \div 64), bs[3] % 64 >>
        \o B64Encode(SubSeq(bs, 4, Len(bs)))

RECURSIVE B64Decode(_)
\* base64.b64decode(text) of a well-padded text: four symbols to up to three
\* bytes.
B64Decode(s) ==
    IF Len(s) < 4 THEN << >>
    ELSE
        LET a == s[1]
            b == s[2]
            c == s[3]
            d == s[4]
            rest == B64Decode(SubSeq(s, 5, Len(s)))
        IN  IF c = Pad THEN << a * 4 + (b \div 16) >>
            ELSE IF d = Pad THEN
                << a * 4 + (b \div 16), (b % 16) * 16 + (c \div 4) >>
            ELSE
                << a * 4 + (b \div 16), (b % 16) * 16 + (c \div 4),
                   (c % 4) * 64 + d >> \o rest

\* ------------------------------------------------------- the provider call

\* The "data" member of an answer that has none.
NoData == << >>

\* "/w==": one byte, 255.
DataFF == << 63, 48, Pad, Pad >>

\* What the provider would answer to a task's request.
RespAudio == [transport |-> "ok", status |-> 200, code |-> 3000, hasData |-> TRUE, data |-> DataFF]

RespHttpError == [transport |-> "ok", status |-> 500, code |-> 0, hasData |-> FALSE, data |-> NoData]

RespApiError == [transport |-> "ok", status |-> 200, code |-> 3001, hasData |-> FALSE, data |-> NoData]

RespTransportError == [transport |-> "error", status |-> 0, code |-> 0, hasData |-> FALSE, data |-> NoData]

\* The answers the provider, or the network on the way to it, can give: no
\* answer at all, or an HTTP status with a body whose "code" is 3000, another
\* code or absent (0), and whose "data" is absent, one byte of audio ("/w==")
\* or the empty string.
Responses ==
    {RespTransportError}
    \cup [transport : {"ok"}, status : {200, 404, 500}, code : {3000, 3001, 0},
          hasData : {TRUE}, data : {DataFF, << >>}]
    \cup [transport : {"ok"}, status : {200, 404, 500}, code : {3000, 3001, 0},
          hasData : {FALSE}, data : {NoData}]

\* The texts a task asks to synthesize, and what the provider would answer
\* to each: audio for the first, an HTTP error status for the second.
Texts == {"hello", "world"}

ProviderAnswer(text) == IF text = "hello" THEN RespAudio ELSE RespHttpError

\* What a call evaluates to: bytes, or an exception.
Returned(bs) == [raised |-> FALSE, exc |-> "none", bytes |-> bs]

Raised(e) == [raised |-> TRUE, exc |-> e, bytes |-> << >>]

\* A body without response.raise_for_status(): the answer's JSON is read
\* whatever the HTTP status.
GenerateAudioAnyStatus(resp) ==
    IF resp.transport # "ok" THEN Raised("Exception")
    ELSE IF resp.code = 3000 /\ resp.hasData THEN Returned(B64Decode(resp.data))
    ELSE Raised("Exception")

\* The body of generate_audio_async once it runs: transport error, HTTP error
\* status (raise_for_status) and provider error code all raise Exception;
\* code 3000 with data returns the decoded audio.
GenerateAudio(resp) ==
    IF resp.transport # "ok" THEN Raised("Exception")
    ELSE IF resp.status >= 400 THEN Raised("Exception")
    ELSE IF resp.code = 3000 /\ resp.hasData THEN Returned(B64Decode(resp.data))
    ELSE Raised("Exception")

\* ------------------------------------------------------------------- tasks

\* Task ids are strings, here sequences of code points: "a", "b".
TaskIds == { << 97 >>, << 98 >> }

\* TaskItem(task_id, text); voice_type and output_filename are passed on
\* unread by the executor.
Tasks == [task_id : TaskIds, text : Texts]

TaskLists == UNION { [1..n -> Tasks] : n \in 0..MaxTasks }

\* A test that finds no task list empty.
NeverNoTasks(tasks) == FALSE

\* "not tasks", "not request.tasks": the list is empty.
NoTasks(tasks) == Len(tasks) = 0

TaskResult(id, audio) == [task_id |-> id, audio_base64 |-> audio]

NoResult == [task_id |-> << >>, audio_base64 |-> << 0 >>]

\* Python's str <: lexicographic by code point, a proper prefix is smaller.
StrLess(s, t) ==
    \E k \in 1..(Len(t)) :
        /\ \A j \in 1..(k - 1) : j <= Len(s) /\ s[j] = t[j]
        /\ k - 1 <= Len(s)
        /\ (k > Len(s) \/ s[k] < t[k])

RECURSIVE InsertByTaskId(_, _)
\* r goes after every element whose key is not greater: the sort is stable.
InsertByTaskId(r, sorted) ==
    IF Len(sorted) = 0 THEN << r >>
    ELSE IF StrLess(r.task_id, Head(sorted).task_id) THEN << r >> \o sorted
    ELSE << Head(sorted) >> \o InsertByTaskId(r, Tail(sorted))

RECURSIVE SortFrom(_, _)
SortFrom(rs, sorted) ==
    IF Len(rs) = 0 THEN sorted
    ELSE SortFrom(Tail(rs), InsertByTaskId(Head(rs), sorted))

RECURSIVE InsertUniqueByTaskId(_, _)
\* r replaces nothing and is dropped when its key is already there.
InsertUniqueByTaskId(r, sorted) ==
    IF Len(sorted) = 0 THEN << r >>
    ELSE IF r.task_id = Head(sorted).task_id THEN sorted
    ELSE IF StrLess(r.task_id, Head(sorted).task_id) THEN << r >> \o sorted
    ELSE << Head(sorted) >> \o InsertUniqueByTaskId(r, Tail(sorted))

RECURSIVE SortUniqueFrom(_, _)
SortUniqueFrom(rs, sorted) ==
    IF Len(rs) = 0 THEN sorted
    ELSE SortUniqueFrom(Tail(rs), InsertUniqueByTaskId(Head(rs), sorted))

\* A sort that keeps one result per task_id, as collecting the results in a
\* dict keyed by task_id would.
SortUniqueByTaskId(rs) == SortUniqueFrom(rs, << >>)

\* results.sort(key=lambda x: x.task_id)
SortByTaskId(rs) == SortFrom(rs, << >>)

\* ------------------------------------------------------------------- state

VARIABLES
    program,    \* what the process runs: a library caller's script, a service
    client,     \* the library caller's VolcengineConcurrentTTS object
    call,       \* per batch call: where it is, its tasks, what it returned
    unit,       \* per batch call: its units of work, one per task
    sem,        \* per batch call: the semaphore generate_batch_async created
    phase,             \* the service: created, started, stopped
    config,            \* ADMIN_API_KEY and the server's own credentials
    global_semaphore,  \* the service's process-wide semaphore, or None
    global_semaphores, \* _global_semaphores: the registered semaphores
    created,           \* per id: the Semaphore objects register_global_semaphore
                       \* created since the registry was last cleared
    admin_response,    \* the answer to the last request to /_admin/semaphores
                       \* or to GET /
    invocation         \* one unit of work followed from inside a bound invoker
                       \* call: the provider's answer, the call's outcome, the
                       \* unit's result and its semaphore

executor == << call, unit, sem >>

service == << program, phase, config, global_semaphore, global_semaphores,
             created, admin_response >>

vars == << program, client, call, unit, sem, phase, config, global_semaphore,
           global_semaphores, created, admin_response, invocation >>

NoClient == [state |-> "none", concurrency |-> 0, error |-> "none"]

\* None where a semaphore may stand.
NoSem == [init |-> FALSE, cap |-> 0, value |-> 0]

\* A test that takes every value for a semaphore.
NeverNone(s) == FALSE

\* "is None", "not external_semaphore": there is no semaphore.
IsNone(s) == ~s.init

\* asyncio.Semaphore(n)
Semaphore(n) == [init |-> TRUE, cap |-> n, value |-> n]

\* asyncio.Semaphore.locked(): no free slot.
Locked(s) == s.value <= 0

\* An acquire that takes no slot.
AcquireNoDecrement(s) == s

\* asyncio.Semaphore.acquire() once a slot is free, the entry of "async with".
Acquire(s) == [s EXCEPT !.value = @ - 1]

\* A release that gives no slot back.
ReleaseNoop(s) == s

\* asyncio.Semaphore.release(), the exit of "async with" on every path.
Release(s) == [s EXCEPT !.value = @ + 1]

\* ------------------------------------------------------ the HTTP services

\* Python's None: a header that is absent, a setting that is unset.
None == "None"

\* The value of ADMIN_API_KEY when it is configured.
AdminKey == "key"

\* The Admin-API-Key header of a request: absent, the configured key, another.
Headers == {None, AdminKey, "other"}

\* The identifiers a shared semaphore may be registered under, and the
\* external_semaphore_id of a batch request.
SemaphoreIds == {"shared1"}

ExternalIds == {None, "shared1", "ghost"}

\* DEFAULT_GLOBAL_CONCURRENCY = int(os.getenv("VOLCENGINE_TTS_CONCURRENCY", "10"))
DEFAULT_GLOBAL_CONCURRENCY == 10

\* concurrency=10 in the services' VolcengineConcurrentTTS(...) call.
ServiceClientConcurrency == 10

\* The keywords of the services' VolcengineConcurrentTTS(...) call.
ServiceClientKwargs == {"app_id", "access_key", "concurrency"}

\* The services' client.generate_batch_async(client_tasks, external_semaphore=...).
ServiceBatchKwargs == {"tasks", "external_semaphore"}

\* task_id is optional in the enhanced service's TaskItem.
NoTaskId == << >>

\* The texts of a service request's tasks. The handlers copy a task's text
\* into its TaskItem (the enhanced one also hashes it into the id of a task
\* that has none) and never branch on it, so one text stands for all of them
\* here; a library caller's tasks range over Texts.
RequestTexts == {"hello"}

\* main.py's TaskItem(task_id, text), main_v2_upgraded.py's TaskItem(prompt,
\* task_id).
MainTasks == [task_id : TaskIds, text : RequestTexts]

MainTaskLists == UNION { [1..n -> MainTasks] : n \in 0..MaxTasks }

\* output_filename is optional too: a name, the number a generated name
\* ends in (0 for a given name) and the extension ("" for none).
NoFilename == [name |-> "None", index |-> 0, ext |-> "None"]

Filenames ==
    {NoFilename, [name |-> "a", index |-> 0, ext |-> ".mp3"],
     [name |-> "a", index |-> 0, ext |-> ""]}

EnhancedTasks ==
    [task_id : TaskIds \cup {NoTaskId}, prompt : RequestTexts,
     output_filename : {NoFilename}]

EnhancedTaskLists == UNION { [1..n -> EnhancedTasks] : n \in 0..MaxTasks }

\* credentials.volcengine_tts_concurrency when the request carries none.
NoConcurrency == 0

\* credentials.volcengine_tts_concurrency of a request: absent, or a capacity
\* the request asks for next to its credentials.
ConcurrencyOverrides(payload_credentials) ==
    IF payload_credentials THEN {NoConcurrency, 1} ELSE {NoConcurrency}

NoRequest ==
    [header |-> None, payload_credentials |-> FALSE,
     concurrency |-> NoConcurrency,
     external_semaphore_id |-> None, tasks |-> << >>]

NoResponse ==
    [status |-> 0, kind |-> "none", results |-> << >>, success |-> FALSE,
     total_tasks |-> 0, successful_count |-> 0, failed_count |-> 0,
     successful_results |-> << >>, failed_results |-> << >>,
     external_semaphore_used |-> FALSE, semaphore_id |-> None]

\* raise HTTPException(status_code=..., detail=...), or an exception the
\* handler does not catch (the framework answers 500).
HTTPError(status, kind) == [NoResponse EXCEPT !.status = status, !.kind = kind]

\* A resolution that hands back credentials for every request.
GetCredentialsAlways(cfg, header, payload_credentials) ==
    [error |-> FALSE, status |-> 0]

\* get_credentials_from_request: admin key in the header, then credentials in
\* the payload, then the environment's; 500 for an admin without server
\* credentials, 401 when nothing resolves.
GetCredentialsFromRequest(cfg, header, payload_credentials) ==
    IF cfg.admin_key # None /\ header = cfg.admin_key
    THEN IF cfg.server_credentials
         THEN [error |-> FALSE, status |-> 0]
         ELSE [error |-> TRUE, status |-> 500]
    ELSE IF payload_credentials THEN [error |-> FALSE, status |-> 0]
    ELSE IF cfg.server_credentials THEN [error |-> FALSE, status |-> 0]
    ELSE [error |-> TRUE, status |-> 401]

\* A lookup that falls back to a fresh semaphore of the default capacity.
GetGlobalSemaphoreOrDefault(registry, id) ==
    IF id \in DOMAIN registry /\ registry[id].init THEN registry[id]
    ELSE Semaphore(DEFAULT_GLOBAL_CONCURRENCY)

\* get_global_semaphore: _global_semaphores.get(semaphore_id)
GetGlobalSemaphore(registry, id) ==
    IF id \in DOMAIN registry THEN registry[id] ELSE NoSem

\* list_global_semaphores: the keys of _global_semaphores
ListGlobalSemaphores(registry) == { id \in DOMAIN registry : registry[id].init }

\* A test that finds no id registered.
NeverRegistered(registry, id) == FALSE

\* semaphore_id in _global_semaphores
IsRegistered(registry, id) == registry[id].init

\* A registration that inserts a new semaphore whatever is registered.
RegisterGlobalSemaphoreReplace(registry, id, limit) ==
    [registry EXCEPT ![id] = Semaphore(limit)]

\* register_global_semaphore: under the lock, the existing semaphore of a
\* registered id is kept, else Semaphore(limit) is inserted.  The lock is
\* never contended: nothing between its acquire and its release suspends.
RegisterGlobalSemaphore(registry, id, limit) ==
    IF IsRegistered(registry, id) THEN registry
    ELSE [registry EXCEPT ![id] = Semaphore(limit)]

RECURSIVE Digits(_)
\* str(n) for n >= 0, as code points.
Digits(n) ==
    IF n < 10 THEN << 48 + n >>
    ELSE Digits(n \div 10) \o << 48 + (n % 10) >>

\* hash(prompt): fixed within one process, here one value per text.
PromptHash(prompt) == IF prompt = "hello" THEN 4321 ELSE 12345

\* f"task_{i+1}_{hash(task.prompt) % 10000}" for the task at position pos
\* (pos = i + 1).
AutoTaskId(pos, prompt) ==
    << 116, 97, 115, 107, 95 >> \o Digits(pos) \o << 95 >>
    \o Digits(PromptHash(prompt) % 10000)

\* The enhanced service's client_tasks: the request's tasks, an id generated
\* where none is given.
EnhancedClientTasks(tasks) ==
    [i \in 1..Len(tasks) |->
        [task_id |-> IF tasks[i].task_id # NoTaskId THEN tasks[i].task_id
                     ELSE AutoTaskId(i, tasks[i].prompt),
         text |-> tasks[i].prompt]]

\* f"legacy_task_{i+1}" for the task at position pos (pos = i + 1).
LegacyTaskId(pos) ==
    << 108, 101, 103, 97, 99, 121, 95, 116, 97, 115, 107, 95 >> \o Digits(pos)

\* The legacy endpoint's client_tasks.
LegacyClientTasks(tasks) ==
    [i \in 1..Len(tasks) |->
        [task_id |-> IF tasks[i].task_id # NoTaskId THEN tasks[i].task_id
                     ELSE LegacyTaskId(i),
         text |-> tasks[i].prompt]]

\* main.py: BatchResponse(results=[TaskResult(task_id, audio_base64) ...])
MainResponse(results) ==
    [NoResponse EXCEPT !.status = 200, !.kind = "results", !.results = results]

\* base_filename for the task at position pos: the task's output_filename,
\* ".mp3" added when it ends in none of .mp3, .wav, .m4a, or
\* f"generated_audio_{i+1}.mp3".
BaseFilename(task, pos) ==
    IF task.output_filename # NoFilename
    THEN IF task.output_filename.ext \in {".mp3", ".wav", ".m4a"}
         THEN task.output_filename
         ELSE [task.output_filename EXCEPT !.ext = ".mp3"]
    ELSE [name |-> "generated_audio", index |-> pos, ext |-> ".mp3"]

\* The enhanced service's loop over zip(request.tasks, client_results): entry
\* i takes prompt, file name and task_id from position i of the request and
\* the audio from position i of the client's (sorted) results; an entry
\* without audio is a failed one, "Empty audio data returned".
EnhancedEntries(tasks, client_tasks, results) ==
    LET n == IF Len(tasks) < Len(results) THEN Len(tasks) ELSE Len(results)
    IN  [i \in 1..n |->
            [task_index |-> i - 1,
             prompt |-> tasks[i].prompt,
             output_filename |-> BaseFilename(tasks[i], i),
             task_id |-> client_tasks[i].task_id,
             audio_base64 |-> results[i].audio_base64,
             success |-> Len(results[i].audio_base64) > 0,
             error |-> IF Len(results[i].audio_base64) > 0 THEN "none"
                       ELSE "Empty audio data returned"]]

\* A flag that is set as soon as one task succeeded.
BatchSuccessAny(ok, ko) == Len(ok) > 0

\* success=len(failed_results) == 0
BatchSuccess(ok, ko) == Len(ko) = 0

IsSuccess(e) == e.success

IsFailure(e) == ~e.success

\* The enhanced service's BatchResponse.
EnhancedResponse(request, client_tasks, results) ==
    LET entries == EnhancedEntries(request.tasks, client_tasks, results)
        ok == SelectSeq(entries, IsSuccess)
        ko == SelectSeq(entries, IsFailure)
    IN  [NoResponse EXCEPT
            !.status = 200, !.kind = "results",
            !.success = BatchSuccess(ok, ko),
            !.total_tasks = Len(request.tasks),
            !.successful_count = Len(ok),
            !.failed_count = Len(ko),
            !.successful_results = ok,
            !.failed_results = ko,
            !.external_semaphore_used = (request.external_semaphore_id # None),
            !.semaphore_id = request.external_semaphore_id]

\* ------------------------------------------------------------ the executor

IdleCall ==
    [pc |-> "idle", origin |-> "none", tasks |-> << >>, results |-> << >>,
     error |-> "none", session |-> "none", sessions |-> 0,
     request |-> NoRequest, response |-> NoResponse]

\* A unit of work: pc, what it produced (a TaskResult, or an exception it
\* raised), and what it did so far: how often it evaluated the invoker call,
\* whether it held a slot when it did, whether that call raised, its
\* acquires and releases; and which of the call's sessions it was handed (0:
\* none).
NewUnit ==
    [pc |-> "spawned", raised |-> FALSE, exc |-> "none", result |-> NoResult,
     calls |-> 0, heldAtCall |-> FALSE, callRaised |-> FALSE,
     acquires |-> 0, releases |-> 0, session |-> 0]

\* A session of its own for every unit of work.
UnitSessionOwn(i) == i

\* The session argument of self._process_one_task(session, task, semaphore)
\* for the task at position i: the one session of the "async with" block,
\* the call's first.
UnitSession(i) == 1

\* An except clause that names the HTTP client's errors only.
ExceptClientErrorCatches(e) == e = "ClientError"

\* Whether "except Exception" catches: CancelledError is a BaseException.
ExceptExceptionCatches(e) == e # "CancelledError"

\* A try/except whose failure path returns a result that names no task.
ProcessOneTaskResultAnonymous(task, outcome) ==
    IF outcome.raised
    THEN [raised |-> FALSE, exc |-> "none", result |-> TaskResult(<< >>, << >>)]
    ELSE [raised |-> FALSE, exc |-> "none",
          result |-> TaskResult(task.task_id, B64Encode(outcome.bytes))]

\* The try/except of _process_one_task around the invoker call: the encoded
\* audio, or the task's id with an empty payload when the call raised.
ProcessOneTaskResult(task, outcome) ==
    IF outcome.raised
    THEN IF ExceptExceptionCatches(outcome.exc)
         THEN [raised |-> FALSE, exc |-> "none",
               result |-> TaskResult(task.task_id, << >>)]
         ELSE [raised |-> TRUE, exc |-> outcome.exc, result |-> NoResult]
    ELSE [raised |-> FALSE, exc |-> "none",
          result |-> TaskResult(task.task_id, B64Encode(outcome.bytes))]

\* Evaluating generate_audio_async(session=..., ..., secret_key=..., ...):
\* TypeError when the keywords do not bind, else the coroutine is awaited.
InvokerCallBinds ==
    CallBinds(ProcessOneTaskKwargs, GenerateAudioParams, GenerateAudioRequired)

\* The answer to a registration, with the semaphore
\* register_global_semaphore returned to the handler.
NoAdminResponse ==
    [status |-> 0, kind |-> "none", semaphore_id |-> None, limit |-> 0,
     all_semaphores |-> {}, semaphore |-> NoSem,
     current_available_slots |-> 0, count |-> 0,
     semaphore_status |-> "none"]

\* No unit of work is followed on its own.
NoInvocation ==
    [pc |-> "none", task |-> [task_id |-> << >>, text |-> "none"],
     resp |-> RespTransportError, outcome |-> Raised("none"),
     u |-> NewUnit, s |-> NoSem, others |-> 0]

Init ==
    /\ program \in {"library", "service"}
    /\ client = NoClient
    /\ call = [c \in Calls |-> IdleCall]
    /\ unit = [c \in Calls |-> << >>]
    /\ sem = [c \in Calls |-> NoSem]
    /\ phase = "created"
    /\ config \in [admin_key : {None, AdminKey}, server_credentials : BOOLEAN]
    /\ program = "library" =>
            config = [admin_key |-> None, server_credentials |-> FALSE]
    /\ global_semaphore = NoSem
    /\ global_semaphores = [id \in SemaphoreIds |-> NoSem]
    /\ created = [id \in SemaphoreIds |-> 0]
    /\ admin_response = NoAdminResponse
    /\ invocation = NoInvocation

\* generate_batch_async from its first line to its await of gather: an empty
\* list returns at once; otherwise one semaphore and one session are created
\* and one unit of work per task is handed to gather.
StartBatch(c, tasks, concurrency, origin, request) ==
    IF NoTasks(tasks)
    THEN /\ call' = [call EXCEPT ![c] =
                        [IdleCall EXCEPT !.pc = "returned", !.origin = origin,
                                         !.request = request]]
         /\ unit' = [unit EXCEPT ![c] = << >>]
         /\ sem' = [sem EXCEPT ![c] = NoSem]
    ELSE /\ call' = [call EXCEPT ![c] =
                        [IdleCall EXCEPT !.pc = "running", !.origin = origin,
                                         !.tasks = tasks, !.session = "open",
                                         !.sessions = 1, !.request = request]]
         /\ unit' = [unit EXCEPT ![c] =
                        [i \in 1..Len(tasks) |->
                            [NewUnit EXCEPT !.session = UnitSession(i)]]]
         /\ sem' = [sem EXCEPT ![c] = Semaphore(concurrency)]

\* create_client(app_id, access_key, secret_key, concurrency): __init__
\* stores the four values and raises ValueError when a credential is empty.
CreateClient ==
    /\ program = "library"
    /\ client.state = "none"
    /\ \E credentials \in BOOLEAN, concurrency \in 1..MaxConcurrency :
        client' =
            IF ~CallBinds(CreateClientKwargs, ClientInitParams, ClientInitRequired)
            THEN [NoClient EXCEPT !.state = "init_failed", !.error = "TypeError"]
            ELSE IF ~credentials
            THEN [NoClient EXCEPT !.state = "init_failed", !.error = "ValueError"]
            ELSE [NoClient EXCEPT !.state = "ready", !.concurrency = concurrency]
    /\ UNCHANGED << executor, service, invocation >>

\* A library caller awaits client.generate_batch_async(tasks), tasks any of
\* lists.
AwaitGenerateBatchAsync(c, lists) ==
    /\ client.state = "ready"
    /\ call[c].pc = "idle"
    /\ \E tasks \in lists :
        IF ~CallBinds(LibraryBatchKwargs, GenerateBatchAsyncParams,
                      GenerateBatchAsyncRequired)
        THEN /\ call' = [call EXCEPT ![c] =
                    [IdleCall EXCEPT !.pc = "raised", !.origin = "library",
                                     !.error = "TypeError"]]
             /\ UNCHANGED << unit, sem >>
        ELSE StartBatch(c, tasks, client.concurrency, "library", NoRequest)
    /\ UNCHANGED << client, service, invocation >>

\* A library caller awaits client.generate_batch_async(tasks).
GenerateBatchAsync(c) == AwaitGenerateBatchAsync(c, TaskLists)

\* The same call, the tasks' texts all the one the provider has audio for:
\* what a task says plays no part in when its unit runs.
GenerateBatchAsyncHello(c) == AwaitGenerateBatchAsync(c, MainTaskLists)

\* An exit that releases the slot only after a result with audio.
ExitSemaphoreOnSuccess(s, r) ==
    IF ~r.raised /\ Len(r.result.audio_base64) > 0 THEN Release(s) ELSE s

\* An exit that keeps the slot.
ExitSemaphoreKeeps(s, r) == s

\* An exit that gives the slot back only when the block ended by returning.
ExitSemaphoreOnReturn(s, r) == IF r.raised THEN s ELSE Release(s)

\* The exit of "async with semaphore": the slot is released however the
\* block ended, with the result r or with an exception.
ExitSemaphore(s, r) == Release(s)

\* An except clause that calls the invoker once more after a failure.
RetriesOnce(outcome) == IF outcome.raised THEN 1 ELSE 0

\* The invoker calls the unit makes after the first one ended with outcome:
\* none, the except clause returns the empty result and no loop surrounds
\* the try.
Retries(outcome) == 0

\* The unit from the invoker call's outcome to its end: the try/except, then
\* the exit of the semaphore block.
FinishUnit(u, s, task, outcome) ==
    LET r == ProcessOneTaskResult(task, outcome)
    IN  [u |-> [u EXCEPT !.pc = "done", !.raised = r.raised, !.exc = r.exc,
                         !.result = r.result, !.callRaised = outcome.raised,
                         !.calls = @ + Retries(outcome),
                         !.releases = @ + 1],
         s |-> ExitSemaphore(s, r)]

\* The unit from "async with semaphore" on, after a slot is seen free: take
\* the slot, evaluate the invoker call; a call that does not bind raises
\* TypeError at once and the unit ends in the same run; a call that binds
\* suspends the unit inside the invoker, holding the slot.
EnterSemaphore(u, s, task) ==
    LET s1 == Acquire(s)
        held == s1.value = s.value - 1 /\ s1.value >= 0
        u1 == [u EXCEPT !.acquires = @ + 1, !.calls = @ + 1,
                        !.heldAtCall = held]
    IN  IF InvokerCallBinds
        THEN [u |-> [u1 EXCEPT !.pc = "in_call"], s |-> s1]
        ELSE FinishUnit(u1, s1, task, Raised("TypeError"))

\* The unit resumed with the provider's answer.
LeaveInvoker(u, s, task) ==
    FinishUnit(u, s, task, GenerateAudio(ProviderAnswer(task.text)))

\* One uninterrupted run of unit i of call c (_process_one_task): from its
\* start or from the wait for a slot into the semaphore block, or from the
\* provider's answer to its end.  A unit that finds no slot waits.
ProcessOneTask(c, i) ==
    /\ call[c].pc \in {"running", "raised", "responded"}
    /\ i \in 1..Len(unit[c])
    /\ LET u == unit[c][i]
           s == sem[c]
           task == call[c].tasks[i]
       IN  /\ u.pc \in {"spawned", "waiting", "in_call"}
           /\ u.pc = "waiting" => ~Locked(s)
           /\ LET next ==
                    IF u.pc = "in_call" THEN LeaveInvoker(u, s, task)
                    ELSE IF Locked(s)
                    THEN [u |-> [u EXCEPT !.pc = "waiting"], s |-> s]
                    ELSE EnterSemaphore(u, s, task)
              IN  /\ unit' = [unit EXCEPT ![c][i] = next.u]
                  /\ sem' = [sem EXCEPT ![c] = next.s]
    /\ UNCHANGED << client, call, service, invocation >>

\* What the await of gather raises: the exception of a unit that raised, or
\* nothing.
GatherException(us) ==
    IF \E i \in 1..Len(us) : us[i].raised
    THEN us[CHOOSE i \in 1..Len(us) : us[i].raised].exc
    ELSE "none"

\* A join that is satisfied by the first unit that ends.
GatherAnyDone(us) == \E i \in 1..Len(us) : us[i].pc = "done"

\* What the await of gather waits for when nothing raises: every unit done.
GatherDone(us) == \A i \in 1..Len(us) : us[i].pc = "done"

\* The call once generate_batch_async ended, by returning results or by
\* raising exc: a library caller has the list or the exception; a service's
\* handler goes on in the same run, main.py and the legacy endpoint to their
\* results (an exception is not caught), the enhanced service to its BatchResponse (an
\* exception becomes HTTP 500, "TTS generation failed").
AfterBatch(cl, exc, results) ==
    LET ended == [cl EXCEPT !.session = "closed", !.results = results,
                            !.error = exc,
                            !.pc = IF exc = "none" THEN "returned" ELSE "raised"]
    IN  IF cl.origin \in {"main", "legacy"}
        THEN [ended EXCEPT !.pc = "responded",
                 !.response = IF exc = "none" THEN MainResponse(results)
                              ELSE HTTPError(500, "unhandled")]
        ELSE IF cl.origin = "enhanced"
        THEN [ended EXCEPT !.pc = "responded",
                 !.response = IF exc = "none"
                              THEN EnhancedResponse(cl.request, cl.tasks, results)
                              ELSE HTTPError(500, "generation_failed")]
        ELSE ended

\* generate_batch_async resumed from gather: with every unit done it leaves
\* the session block, sorts the results by task_id and returns them; when a
\* unit raised, gather raises that exception to the caller at once.
GatherReturn(c) ==
    /\ call[c].pc = "running"
    /\ LET us == unit[c]
           exc == GatherException(us)
       IN  IF exc # "none"
           THEN call' = [call EXCEPT ![c] = AfterBatch(call[c], exc, << >>)]
           ELSE /\ GatherDone(us)
                /\ call' = [call EXCEPT ![c] =
                       AfterBatch(call[c], "none",
                           SortByTaskId([i \in 1..Len(us) |-> us[i].result]))]
    /\ UNCHANGED << client, unit, sem, service, invocation >>

\* -------------------------------------------------- the services' handlers

\* The batch request a service is followed through; its handlers run one
\* after another and leave the service's state as it was.
ServiceCalls == {"c1"}

\* startup_event: the process-wide semaphore (and the registry's lock) are
\* created.
Startup ==
    /\ program = "service"
    /\ phase = "created"
    /\ phase' = "started"
    /\ global_semaphore' = Semaphore(DEFAULT_GLOBAL_CONCURRENCY)
    /\ UNCHANGED << program, client, executor, config, global_semaphores,
                    created, admin_response, invocation >>

\* shutdown_event: global_semaphore = None, _global_semaphores.clear()
Shutdown ==
    /\ program = "service"
    /\ phase = "started"
    /\ phase' = "stopped"
    /\ global_semaphore' = NoSem
    /\ global_semaphores' = [id \in SemaphoreIds |-> NoSem]
    /\ created' = [id \in SemaphoreIds |-> 0]
    /\ UNCHANGED << program, client, executor, config, admin_response,
                    invocation >>

\* POST /_admin/semaphores (register_semaphore): 401 unless the header
\* equals ADMIN_API_KEY; else register_global_semaphore, and the answer
\* carries the request's id and limit and the registered names.
RegisterSemaphore ==
    /\ program = "service"
    /\ \E header \in Headers, id \in SemaphoreIds, limit \in 1..MaxConcurrency :
        IF header # config.admin_key
        THEN /\ admin_response' = [NoAdminResponse EXCEPT !.status = 401,
                                                          !.kind = "register"]
             /\ UNCHANGED << global_semaphores, created >>
        ELSE LET registry == RegisterGlobalSemaphore(global_semaphores, id, limit)
             IN  /\ global_semaphores' = registry
                 /\ created' =
                        IF IsRegistered(global_semaphores, id) THEN created
                        ELSE [created EXCEPT ![id] = @ + 1]
                 /\ admin_response' =
                        [NoAdminResponse EXCEPT
                            !.status = 200, !.kind = "register",
                            !.semaphore_id = id, !.limit = limit,
                            !.all_semaphores = ListGlobalSemaphores(registry),
                            !.semaphore = registry[id]]
    /\ UNCHANGED << program, client, executor, phase, config, global_semaphore,
                    invocation >>

\* "Not initialized", where current_available_slots has no number to report.
NotInitializedSlots == -1

\* A read that reports the slots taken.
AvailableSlotsHeld(s) == s.cap - s.value

\* global_semaphore._value: the free slots of the semaphore.
AvailableSlots(s) == s.value

\* GET / (read_root): the status of the process-wide semaphore, its free
\* slots and, in main_v2_upgraded.py, len(_global_semaphores).
ReadRoot ==
    /\ program = "service"
    /\ admin_response' =
            [NoAdminResponse EXCEPT
                !.status = 200, !.kind = "health",
                !.current_available_slots =
                    IF IsNone(global_semaphore) THEN NotInitializedSlots
                    ELSE AvailableSlots(global_semaphore),
                !.count = Cardinality(ListGlobalSemaphores(global_semaphores)),
                !.semaphore_status =
                    IF IsNone(global_semaphore) THEN "not_initialized"
                    ELSE "initialized"]
    /\ UNCHANGED << program, client, executor, phase, config, global_semaphore,
                    global_semaphores, created, invocation >>

\* GET /_admin/semaphores (list_semaphores): the registered names and how
\* many they are; no header is asked for.
ListSemaphores ==
    /\ program = "service"
    /\ LET semaphores == ListGlobalSemaphores(global_semaphores)
       IN  admin_response' =
                [NoAdminResponse EXCEPT !.status = 200, !.kind = "list",
                                        !.all_semaphores = semaphores,
                                        !.count = Cardinality(semaphores)]
    /\ UNCHANGED << program, client, executor, phase, config, global_semaphore,
                    global_semaphores, created, invocation >>

\* The handler answers without running a batch.
Respond(c, origin, request, response) ==
    /\ call' = [call EXCEPT ![c] =
                    [IdleCall EXCEPT !.pc = "responded", !.origin = origin,
                                     !.request = request, !.response = response]]
    /\ unit' = [unit EXCEPT ![c] = << >>]
    /\ sem' = [sem EXCEPT ![c] = NoSem]

\* main.py, POST /generate-batch (generate_batch): credentials, the empty
\* list, the process-wide semaphore, then the client is constructed and
\* generate_batch_async awaited.
GenerateBatch(c) ==
    /\ program = "service"
    /\ call[c].pc = "idle"
    /\ \E header \in Headers, payload_credentials \in BOOLEAN,
          tasks \in MainTaskLists :
       \E concurrency \in ConcurrencyOverrides(payload_credentials) :
        LET request == [NoRequest EXCEPT !.header = header,
                            !.payload_credentials = payload_credentials,
                            !.concurrency = concurrency,
                            !.tasks = tasks]
            credentials ==
                GetCredentialsFromRequest(config, header, payload_credentials)
        IN  IF credentials.error
            THEN Respond(c, "main", request,
                         HTTPError(credentials.status, "credentials"))
            ELSE IF NoTasks(tasks)
            THEN Respond(c, "main", request, MainResponse(<< >>))
            ELSE IF IsNone(global_semaphore)
            THEN Respond(c, "main", request, HTTPError(500, "not_initialized"))
            ELSE IF ~CallBinds(ServiceClientKwargs, ClientInitParams,
                               ClientInitRequired)
            THEN Respond(c, "main", request, HTTPError(500, "TypeError"))
            ELSE IF ~CallBinds(ServiceBatchKwargs, GenerateBatchAsyncParams,
                               GenerateBatchAsyncRequired)
            THEN Respond(c, "main", request, HTTPError(500, "TypeError"))
            ELSE StartBatch(c, tasks, ServiceClientConcurrency, "main", request)
    /\ UNCHANGED << client, service, invocation >>

\* main_v2_upgraded.py, POST /generate-batch (generate_batch_enhanced):
\* credentials, the empty list, the semaphore to use (the registered one of
\* external_semaphore_id, 400 when there is none, else the process-wide
\* one, 500 when that is None), then the client is constructed, the tasks
\* are converted and generate_batch_async is awaited inside try/except.
GenerateBatchEnhanced(c) ==
    /\ program = "service"
    /\ call[c].pc = "idle"
    /\ \E header \in Headers, payload_credentials \in BOOLEAN,
          id \in ExternalIds, tasks \in EnhancedTaskLists :
       \E concurrency \in ConcurrencyOverrides(payload_credentials) :
        LET request == [NoRequest EXCEPT !.header = header,
                            !.payload_credentials = payload_credentials,
                            !.concurrency = concurrency,
                            !.external_semaphore_id = id,
                            !.tasks = tasks]
            credentials ==
                GetCredentialsFromRequest(config, header, payload_credentials)
            semaphore_to_use ==
                IF id # None THEN GetGlobalSemaphore(global_semaphores, id)
                ELSE global_semaphore
        IN  IF credentials.error
            THEN Respond(c, "enhanced", request,
                         HTTPError(credentials.status, "credentials"))
            ELSE IF NoTasks(tasks)
            THEN Respond(c, "enhanced", request,
                         [NoResponse EXCEPT !.status = 200, !.kind = "results",
                                            !.success = TRUE])
            ELSE IF id # None /\ IsNone(semaphore_to_use)
            THEN Respond(c, "enhanced", request, HTTPError(400, "not_found"))
            ELSE IF IsNone(semaphore_to_use)
            THEN Respond(c, "enhanced", request,
                         HTTPError(500, "not_initialized"))
            ELSE IF ~CallBinds(ServiceClientKwargs, ClientInitParams,
                               ClientInitRequired)
            THEN Respond(c, "enhanced", request, HTTPError(500, "TypeError"))
            ELSE IF ~CallBinds(ServiceBatchKwargs, GenerateBatchAsyncParams,
                               GenerateBatchAsyncRequired)
            THEN Respond(c, "enhanced", request,
                         HTTPError(500, "generation_failed"))
            ELSE StartBatch(c, EnhancedClientTasks(tasks),
                            ServiceClientConcurrency, "enhanced", request)
    /\ UNCHANGED << client, service, invocation >>

\* main_v2_upgraded.py, POST /generate-batch-legacy (generate_batch_legacy):
\* credentials, the empty list, the process-wide semaphore (the request's
\* external_semaphore_id is not read), then the client is constructed and
\* generate_batch_async awaited; the answer is {"results": [...]}.
GenerateBatchLegacy(c) ==
    /\ program = "service"
    /\ call[c].pc = "idle"
    /\ \E header \in Headers, payload_credentials \in BOOLEAN,
          tasks \in EnhancedTaskLists :
       \E concurrency \in ConcurrencyOverrides(payload_credentials) :
        LET request == [NoRequest EXCEPT !.header = header,
                            !.payload_credentials = payload_credentials,
                            !.concurrency = concurrency,
                            !.tasks = tasks]
            credentials ==
                GetCredentialsFromRequest(config, header, payload_credentials)
        IN  IF credentials.error
            THEN Respond(c, "legacy", request,
                         HTTPError(credentials.status, "credentials"))
            ELSE IF NoTasks(tasks)
            THEN Respond(c, "legacy", request, MainResponse(<< >>))
            ELSE IF IsNone(global_semaphore)
            THEN Respond(c, "legacy", request, HTTPError(500, "not_initialized"))
            ELSE IF ~CallBinds(ServiceClientKwargs, ClientInitParams,
                               ClientInitRequired)
            THEN Respond(c, "legacy", request, HTTPError(500, "TypeError"))
            ELSE IF ~CallBinds(ServiceBatchKwargs, GenerateBatchAsyncParams,
                               GenerateBatchAsyncRequired)
            THEN Respond(c, "legacy", request, HTTPError(500, "TypeError"))
            ELSE StartBatch(c, LegacyClientTasks(tasks),
                            ServiceClientConcurrency, "legacy", request)
    /\ UNCHANGED << client, service, invocation >>

Next ==
    \/ CreateClient
    \/ Startup
    \/ Shutdown
    \/ RegisterSemaphore
    \/ ReadRoot
    \/ ListSemaphores
    \/ \E c \in ServiceCalls :
        \/ GenerateBatch(c)
        \/ GenerateBatchEnhanced(c)
        \/ GenerateBatchLegacy(c)
    \/ \E c \in Calls :
        \/ GenerateBatchAsync(c)
        \/ \E i \in 1..MaxTasks : ProcessOneTask(c, i)
        \/ GatherReturn(c)

Spec == Init /\ [][Next]_vars

\* ------------------------------------------- one unit of work, call bound

\* generate_audio_async called as its signature asks (session, app_id,
\* access_key, text, voice_type), from inside _process_one_task's semaphore
\* block: the unit holds a slot of a semaphore of capacity n, of which other
\* units hold some of the rest, and is suspended in session.post; any answer
\* of Responses may come.
InitInvoker ==
    /\ program = "invoker"
    /\ client = NoClient
    /\ call = [c \in Calls |-> IdleCall]
    /\ unit = [c \in Calls |-> << >>]
    /\ sem = [c \in Calls |-> NoSem]
    /\ phase = "created"
    /\ config = [admin_key |-> None, server_credentials |-> FALSE]
    /\ global_semaphore = NoSem
    /\ global_semaphores = [id \in SemaphoreIds |-> NoSem]
    /\ created = [id \in SemaphoreIds |-> 0]
    /\ admin_response = NoAdminResponse
    /\ \E task \in Tasks, resp \in Responses, n \in 1..MaxConcurrency :
        \E others \in 0..(n - 1) :
            invocation =
                [NoInvocation EXCEPT
                    !.pc = "in_call", !.task = task, !.resp = resp,
                    !.others = others,
                    !.u = [NewUnit EXCEPT !.pc = "in_call", !.acquires = 1,
                                          !.calls = 1, !.heldAtCall = TRUE,
                                          !.session = UnitSession(1)],
                    !.s = Acquire([Semaphore(n) EXCEPT !.value = n - others])]

\* The body of generate_audio_async ends: it returns the decoded audio or
\* raises.
GenerateAudioAsync ==
    /\ invocation.pc = "in_call"
    /\ invocation' = [invocation EXCEPT
                        !.pc = "answered",
                        !.outcome = GenerateAudio(invocation.resp)]
    /\ UNCHANGED << client, executor, service >>

\* _process_one_task resumed with the call's outcome: the try/except, then
\* the exit of the semaphore block.
ResumeProcessOneTask ==
    /\ invocation.pc = "answered"
    /\ LET next == FinishUnit(invocation.u, invocation.s, invocation.task,
                              invocation.outcome)
       IN  invocation' = [invocation EXCEPT !.pc = "done", !.u = next.u,
                                             !.s = next.s]
    /\ UNCHANGED << client, executor, service >>

\* The batch call is abandoned while the unit is suspended in the invoker:
\* the caller's timeout or cancel cancels gather, gather cancels the unit's
\* task, and CancelledError is raised in the unit at its await.
CancelInvocation ==
    /\ invocation.pc = "in_call"
    /\ invocation' = [invocation EXCEPT !.pc = "answered",
                                        !.outcome = Raised("CancelledError")]
    /\ UNCHANGED << client, executor, service >>

NextInvoker ==
    \/ GenerateAudioAsync
    \/ CancelInvocation
    \/ ResumeProcessOneTask

SpecInvoker == InitInvoker /\ [][NextInvoker]_vars

\* ------------------------------------ the enhanced handler after its batch

\* What a unit's invoker call can have ended with: audio, audio of no
\* bytes, or an exception.
Outcomes == {Returned(<< 255 >>), Returned(<< >>), Raised("Exception")}

\* The tasks an enhanced request can carry, output_filename included.
AssemblerTasks ==
    [task_id : TaskIds \cup {NoTaskId}, prompt : RequestTexts,
     output_filename : Filenames]

\* generate_batch_enhanced at its await of generate_batch_async, for a batch
\* whose units have all ended: the request's tasks are any non-empty list, and
\* the invoker call of each unit ended with any of Outcomes.  What follows is
\* the rest of generate_batch_async and the handler's assembly of its
\* BatchResponse.
InitAssembler ==
    /\ program = "service"
    /\ client = NoClient
    /\ phase = "started"
    /\ config = [admin_key |-> None, server_credentials |-> TRUE]
    /\ global_semaphore = Semaphore(DEFAULT_GLOBAL_CONCURRENCY)
    /\ global_semaphores = [id \in SemaphoreIds |-> NoSem]
    /\ created = [id \in SemaphoreIds |-> 0]
    /\ admin_response = NoAdminResponse
    /\ invocation = NoInvocation
    /\ \E n \in 1..MaxTasks :
        \E tasks \in [1..n -> AssemblerTasks], outcomes \in [1..n -> Outcomes] :
            LET client_tasks == EnhancedClientTasks(tasks)
                s == Semaphore(ServiceClientConcurrency)
                entered == [NewUnit EXCEPT !.pc = "in_call", !.acquires = 1,
                                           !.calls = 1, !.heldAtCall = TRUE,
                                           !.session = UnitSession(1)]
            IN  /\ call = [c \in Calls |->
                            IF c \in ServiceCalls
                            THEN [IdleCall EXCEPT
                                    !.pc = "running", !.origin = "enhanced",
                                    !.tasks = client_tasks, !.session = "open",
                                    !.sessions = 1,
                                    !.request = [NoRequest EXCEPT !.tasks = tasks]]
                            ELSE IdleCall]
                /\ unit = [c \in Calls |->
                            IF c \in ServiceCalls
                            THEN [i \in 1..n |->
                                    FinishUnit(entered, Acquire(s),
                                               client_tasks[i], outcomes[i]).u]
                            ELSE << >>]
                /\ sem = [c \in Calls |->
                            IF c \in ServiceCalls THEN s ELSE NoSem]

NextAssembler == \E c \in ServiceCalls : GatherReturn(c)

SpecAssembler == InitAssembler /\ [][NextAssembler]_vars

\* ------------------------------------------------------- fair scheduling

\* The event loop runs every callback of its ready queue in turn: a unit of
\* work that stays able to run does run (a unit waiting for a slot is woken
\* when one is released), and generate_batch_async is resumed once gather
\* ends.  Whether a caller starts a batch at all is the caller's choice.
Fairness ==
    \A c \in Calls :
        /\ WF_vars(GatherReturn(c))
        /\ \A i \in 1..MaxTasks : WF_vars(ProcessOneTask(c, i))

\* A program that uses the library: it creates its client and awaits
\* generate_batch_async, one call or several at a time.
InitLibrary == Init /\ program = "library"

NextLibrary ==
    \/ CreateClient
    \/ \E c \in Calls :
        \/ GenerateBatchAsyncHello(c)
        \/ \E i \in 1..MaxTasks : ProcessOneTask(c, i)
        \/ GatherReturn(c)

SpecFair == InitLibrary /\ [][NextLibrary]_vars /\ Fairness

\* ------------------------------------------------------------- properties

UnitsOf(c) == 1..Len(unit[c])

\* The units of call c suspended inside the invoker.
InCall(c) == { i \in UnitsOf(c) : unit[c][i].pc = "in_call" }

\* The units of call c that took a slot and have not given it back.
Holders(c) == { i \in UnitsOf(c) : unit[c][i].acquires > unit[c][i].releases }

\* A service request that got past the handler's own checks: credentials
\* resolved, a non-empty task list, a semaphore to run under.
PassedChecks(c) ==
    /\ call[c].origin \in {"main", "enhanced", "legacy"}
    /\ call[c].pc = "responded"
    /\ Len(call[c].request.tasks) > 0
    /\ call[c].response.kind \notin {"credentials", "not_found", "not_initialized"}

\* C1: in every reachable state, for every semaphore of capacity N and every
\* batch size, at most N units are inside an invoker call, each of them
\* holding a slot, and a unit that evaluated the invoker call held a slot of
\* the semaphore when it did.
C1_InFlightAtMostCapacity ==
    \A c \in Calls :
        /\ sem[c].init => Cardinality(InCall(c)) <= sem[c].cap
        /\ InCall(c) \subseteq Holders(c)
        /\ \A i \in UnitsOf(c) : unit[c][i].calls > 0 => unit[c][i].heldAtCall

\* C1: a batch larger than its semaphore's capacity has returned, and every
\* unit evaluated its invoker call once, holding a slot.
C1_Witness ==
    \E c \in Calls :
        /\ call[c].pc = "returned"
        /\ sem[c].init
        /\ Len(unit[c]) > sem[c].cap
        /\ \A i \in UnitsOf(c) : unit[c][i].calls = 1 /\ unit[c][i].heldAtCall

\* C2: every POST /generate-batch of main.py that got past the handler's
\* checks is admitted through the process-wide semaphore: its batch runs
\* under global_semaphore and is answered with one result per task, with
\* never more units in flight than DEFAULT_GLOBAL_CONCURRENCY.
C2_AdmittedThroughGlobalSemaphore ==
    \A c \in Calls :
        /\ call[c].origin = "main" =>
                Cardinality(InCall(c)) <= DEFAULT_GLOBAL_CONCURRENCY
        /\ (call[c].origin = "main" /\ PassedChecks(c)) =>
                /\ call[c].response.kind = "results"
                /\ Len(call[c].response.results) = Len(call[c].request.tasks)
                /\ sem[c].init /\ sem[c].cap = DEFAULT_GLOBAL_CONCURRENCY

\* C3: every enhanced POST /generate-batch that names a registered external
\* semaphore and got past the handler's checks runs its batch under that
\* semaphore and is answered with its results, with never more units in
\* flight than the capacity the semaphore was registered with.
C3_AdmittedThroughExternalSemaphore ==
    \A c \in Calls :
        (/\ call[c].origin = "enhanced"
         /\ PassedChecks(c)
         /\ call[c].request.external_semaphore_id \in SemaphoreIds) =>
            /\ call[c].response.kind = "results"
            /\ call[c].response.external_semaphore_used
            /\ sem[c].init /\ sem[c].cap <= MaxConcurrency
            /\ Cardinality(InCall(c)) <= sem[c].cap

\* How often x occurs in seq.
Count(seq, x) == Cardinality({ j \in 1..Len(seq) : seq[j] = x })

\* The task ids of seq, position by position.
IdsOf(seq) == [j \in 1..Len(seq) |-> seq[j].task_id]

\* What the provider call of unit i of call c evaluates to once it runs.
ProviderOutcome(c, i) == GenerateAudio(ProviderAnswer(call[c].tasks[i].text))

\* C4: a batch call that returned for a non-empty task list returned as many
\* results as tasks, every unit of work ended with one result, and each
\* task id occurs among the results as often as among the tasks (repeated
\* ids included): nothing dropped, nothing duplicated.
C4_OneOutcomePerTask ==
    \A c \in Calls :
        (call[c].pc = "returned" /\ Len(call[c].tasks) > 0) =>
            /\ Len(call[c].results) = Len(call[c].tasks)
            /\ \A i \in UnitsOf(c) : unit[c][i].pc = "done" /\ unit[c][i].calls = 1
            /\ \A i \in UnitsOf(c) :
                    Count(IdsOf(call[c].results), call[c].tasks[i].task_id)
                        = Count(IdsOf(call[c].tasks), call[c].tasks[i].task_id)

\* C4: a batch whose tasks share one task id returned, one result per task.
C4_Witness ==
    \E c \in Calls :
        /\ call[c].pc = "returned"
        /\ Len(call[c].tasks) >= 2
        /\ call[c].tasks[1].task_id = call[c].tasks[2].task_id
        /\ Len(call[c].results) = Len(call[c].tasks)

\* C5: the result a unit of work ends with carries the id of the unit's own
\* task, and the results a batch call returns are those of its units, each
\* as often as units produced it: no payload travels under another task's
\* id, wherever the sort puts it.
C5_OutcomeCarriesItsTaskId ==
    \A c \in Calls :
        /\ \A i \in UnitsOf(c) :
                (unit[c][i].pc = "done" /\ ~unit[c][i].raised) =>
                    unit[c][i].result.task_id = call[c].tasks[i].task_id
        /\ call[c].pc = "returned" =>
                /\ \A i \in UnitsOf(c) :
                        Count(call[c].results, unit[c][i].result)
                            = Cardinality({ k \in UnitsOf(c) :
                                    unit[c][k].result = unit[c][i].result })
                /\ \A j \in 1..Len(call[c].results) :
                        \E i \in UnitsOf(c) : unit[c][i].result = call[c].results[j]

\* C5: a batch submitted in descending id order returned: the sort moved the
\* second task's result to the front.
C5_Witness ==
    \E c \in Calls :
        /\ call[c].pc = "returned"
        /\ Len(call[c].tasks) >= 2
        /\ StrLess(call[c].tasks[2].task_id, call[c].tasks[1].task_id)
        /\ call[c].results[1].task_id = call[c].tasks[2].task_id

\* The entries of an enhanced response, successful and failed.
EntriesOf(response) ==
    { response.successful_results[j] : j \in 1..Len(response.successful_results) }
    \cup { response.failed_results[j] : j \in 1..Len(response.failed_results) }

\* C6: an enhanced POST /generate-batch that got past the handler's checks
\* is answered with one entry per input position i (task_index i - 1), and
\* that entry reports the prompt and the task id of request.tasks[i] and the
\* audio the unit of work of that task produced.
C6_EntryReportsItsTask ==
    \A c \in Calls :
        (call[c].origin = "enhanced" /\ PassedChecks(c)) =>
            /\ call[c].response.kind = "results"
            /\ \A i \in 1..Len(call[c].request.tasks) :
                    \E e \in EntriesOf(call[c].response) :
                        /\ e.task_index = i - 1
                        /\ e.prompt = call[c].request.tasks[i].prompt
                        /\ e.task_id = call[c].tasks[i].task_id
                        /\ i \in UnitsOf(c)
                        /\ e.audio_base64 = unit[c][i].result.audio_base64

\* A unit of call c that has not entered the semaphore block yet.
NotEntered(c) == { i \in UnitsOf(c) : unit[c][i].pc \in {"spawned", "waiting"} }

\* C7: a unit whose invoker call raised ends with its task's id and an empty
\* payload and raises nothing; what a unit ends with depends on its own task
\* only, so equal tasks end alike whatever their siblings did, in the same
\* batch or another; and no failed unit keeps a sibling from running: a
\* unit still to enter is never left facing a semaphore without a free slot
\* while nobody is inside the invoker, and a batch returns only with every
\* unit done.
C7_FailureIsIsolated ==
    \A c \in Calls :
        /\ \A i \in UnitsOf(c) :
                (unit[c][i].pc = "done" /\ unit[c][i].callRaised) =>
                    /\ ~unit[c][i].raised
                    /\ unit[c][i].result
                            = TaskResult(call[c].tasks[i].task_id, << >>)
        /\ \A d \in Calls : \A i \in UnitsOf(c), j \in UnitsOf(d) :
                (/\ unit[c][i].pc = "done"
                 /\ unit[d][j].pc = "done"
                 /\ call[c].tasks[i] = call[d].tasks[j]) =>
                    unit[c][i].result = unit[d][j].result
        /\ (sem[c].init /\ NotEntered(c) # {} /\ InCall(c) = {}) =>
                ~Locked(sem[c])
        /\ call[c].pc = "returned" =>
                \A i \in UnitsOf(c) : unit[c][i].pc = "done"

\* C7: in a batch of two under a semaphore of one slot, the first unit's
\* invoker call has failed and the second unit ran all the same.
C7_Witness ==
    \E c \in Calls :
        /\ Len(unit[c]) >= 2
        /\ sem[c].init /\ sem[c].cap = 1
        /\ unit[c][1].pc = "done" /\ unit[c][1].callRaised
        /\ unit[c][1].result.audio_base64 = << >>
        /\ unit[c][2].pc = "done" /\ unit[c][2].calls = 1

\* C8: a library caller's generate_batch_async never raises: no unit of work
\* raises, gather has no exception to pass on, and the call does not end
\* with an exception, however many invoker calls failed.
C8_NeverRaisesToCaller ==
    \A c \in Calls :
        call[c].origin \in {"none", "library"} =>
            /\ call[c].pc # "raised"
            /\ call[c].error = "none"
            /\ GatherException(unit[c]) = "none"
            /\ \A i \in UnitsOf(c) : ~unit[c][i].raised

\* C8: a batch in which every invoker call failed returned a full result
\* list.
C8_Witness ==
    \E c \in Calls :
        /\ call[c].pc = "returned"
        /\ call[c].origin = "library"
        /\ Len(call[c].tasks) >= 2
        /\ \A i \in UnitsOf(c) : unit[c][i].callRaised
        /\ Len(call[c].results) = Len(call[c].tasks)

\* C9: a unit of work whose provider would answer its task's request with
\* audio ends with the task's id and the base64 text of that audio, a
\* non-empty payload.
C9_ProviderAudioIsReturned ==
    \A c \in Calls : \A i \in UnitsOf(c) :
        (unit[c][i].pc = "done" /\ ~ProviderOutcome(c, i).raised) =>
            /\ unit[c][i].result
                    = TaskResult(call[c].tasks[i].task_id,
                                 B64Encode(ProviderOutcome(c, i).bytes))
            /\ Len(unit[c][i].result.audio_base64) > 0

\* C10: for every semaphore a batch runs under, free slots plus slots held
\* make the capacity and the free slots stay within 0..capacity; a unit
\* acquires at most once and releases what it acquired, a finished unit has
\* acquired once and released once; and once the batch has returned the
\* semaphore has all its slots again.
C10_SlotsConserved ==
    \A c \in Calls :
        sem[c].init =>
            /\ sem[c].value + Cardinality(Holders(c)) = sem[c].cap
            /\ sem[c].value >= 0 /\ sem[c].value <= sem[c].cap
            /\ \A i \in UnitsOf(c) :
                    /\ unit[c][i].releases <= unit[c][i].acquires
                    /\ unit[c][i].acquires <= 1
                    /\ unit[c][i].pc = "done" =>
                            unit[c][i].acquires = 1 /\ unit[c][i].releases = 1
            /\ call[c].pc = "returned" => sem[c].value = sem[c].cap

\* C10: a batch whose units all took the failure path has returned, every
\* unit having acquired and released one slot, all slots free again.
C10_Witness ==
    \E c \in Calls :
        /\ call[c].pc = "returned"
        /\ sem[c].init /\ sem[c].value = sem[c].cap
        /\ Len(unit[c]) >= 2
        /\ \A i \in UnitsOf(c) :
                /\ unit[c][i].callRaised
                /\ unit[c][i].acquires = 1 /\ unit[c][i].releases = 1

\* C11: a registration that is accepted for an id that is already registered
\* leaves the registry as it was (the same semaphore, its capacity and its
\* free slots unchanged, whatever limit is asked for), creates no
\* semaphore, and hands the handler the semaphore that was registered.
C11_ReRegistrationKeepsLimiter ==
    [][ \A id \in SemaphoreIds :
            (/\ RegisterSemaphore
             /\ admin_response'.status = 200
             /\ admin_response'.semaphore_id = id
             /\ global_semaphores[id].init) =>
                /\ global_semaphores' = global_semaphores
                /\ created' = created
                /\ admin_response'.semaphore = global_semaphores[id]
                /\ id \in admin_response'.all_semaphores ]_vars

\* C11: a registration asking for a larger limit than the registered
\* semaphore's capacity was answered with success, and the semaphore kept its
\* capacity.
C11_Witness ==
    /\ admin_response.status = 200
    /\ admin_response.semaphore_id \in SemaphoreIds
    /\ global_semaphores[admin_response.semaphore_id].init
    /\ admin_response.limit > global_semaphores[admin_response.semaphore_id].cap

\* C12: however registrations, lookups and listings interleave, at most one
\* semaphore is created per id while the registry lives, an id is registered
\* exactly when that one semaphore was created, and the semaphore a
\* registration returned is the one the registry holds.
C12_OneLimiterPerId ==
    /\ \A id \in SemaphoreIds :
            /\ created[id] <= 1
            /\ global_semaphores[id].init <=> created[id] = 1
    /\ (/\ admin_response.status = 200
        /\ admin_response.semaphore_id \in SemaphoreIds
        /\ global_semaphores[admin_response.semaphore_id].init) =>
            admin_response.semaphore
                = global_semaphores[admin_response.semaphore_id]

\* C12: a second registration of an id, with another limit, was answered
\* while a batch request had been answered in between, and one semaphore
\* exists for the id.
C12_Witness ==
    /\ admin_response.status = 200
    /\ admin_response.semaphore_id \in SemaphoreIds
    /\ created[admin_response.semaphore_id] = 1
    /\ admin_response.limit # admin_response.semaphore.cap
    /\ admin_response.all_semaphores = {admin_response.semaphore_id}
    /\ \E c \in Calls : call[c].origin = "enhanced"
                        /\ call[c].request.external_semaphore_id
                                = admin_response.semaphore_id
                        /\ call[c].response.kind # "not_found"
                        /\ Len(call[c].request.tasks) > 0
                        /\ call[c].response.status # 401

\* The service request of call c resolves to credentials.
Resolves(c) ==
    ~GetCredentialsFromRequest(config, call[c].request.header,
                               call[c].request.payload_credentials).error

\* Call c was a batch call with an empty task list and has ended.
EmptyBatch(c) ==
    /\ call[c].pc \in {"returned", "responded"}
    /\ Len(call[c].tasks) = 0
    /\ Len(call[c].request.tasks) = 0

\* What C13 and its original statement share: an ended empty batch made no
\* unit of work and took no slot, a library call returned the empty list,
\* and a service request, when it is one of those admitted, was answered
\* 200 with no results and all counts 0.
EmptyBatchAnswered(c, admitted) ==
    EmptyBatch(c) =>
        /\ unit[c] = << >>
        /\ sem[c].init => sem[c].value = sem[c].cap
        /\ call[c].origin = "library" =>
                call[c].pc = "returned" /\ call[c].results = << >>
        /\ (call[c].origin \in {"main", "enhanced", "legacy"} /\ admitted) =>
                /\ call[c].response.status = 200
                /\ call[c].response.kind = "results"
                /\ call[c].response.results = << >>
                /\ call[c].response.total_tasks = 0
                /\ call[c].response.successful_count = 0
                /\ call[c].response.failed_count = 0
                /\ call[c].response.successful_results = << >>
                /\ call[c].response.failed_results = << >>

\* C13 (with the precondition the handlers put first: the request's
\* credentials resolve): a batch call with an empty task list returns an
\* empty result set, in the enhanced endpoint with all counts 0, makes no
\* invoker call and takes no slot; and the step that answers it leaves the
\* process-wide semaphore, the registry and every batch's semaphore as they
\* were.
C13_EmptyBatchWithCredentials ==
    /\ [](\A c \in Calls : EmptyBatchAnswered(c, Resolves(c)))
    /\ [][ \A c \in Calls :
                (call[c].pc = "idle" /\ call'[c].pc # "idle"
                 /\ Len(call'[c].tasks) = 0
                 /\ Len(call'[c].request.tasks) = 0) =>
                    /\ global_semaphore' = global_semaphore
                    /\ global_semaphores' = global_semaphores
                    /\ created' = created
                    /\ \A d \in Calls \ {c} : sem'[d] = sem[d] ]_vars

\* C13: an enhanced request with an empty task list was answered 200 with
\* counts 0 while the process-wide semaphore existed and a semaphore was
\* registered.
C13_Witness ==
    \E c \in Calls :
        /\ EmptyBatch(c)
        /\ call[c].origin = "enhanced"
        /\ call[c].response.status = 200
        /\ call[c].response.total_tasks = 0
        /\ global_semaphore.init
        /\ \E id \in SemaphoreIds : global_semaphores[id].init

\* C13 as stated, for every batch call with an empty task list: an empty
\* result set, zero invoker calls, zero acquisitions.
C13_EmptyListGivesEmptyResult ==
    \A c \in Calls : EmptyBatchAnswered(c, TRUE)

\* Call c is an answered enhanced request with tasks that names an id no
\* registration can have put into the registry.
NamesUnknownLimiter(c) ==
    /\ call[c].origin = "enhanced"
    /\ call[c].pc = "responded"
    /\ Len(call[c].request.tasks) > 0
    /\ call[c].request.external_semaphore_id \notin SemaphoreIds \cup {None}

\* What C14 and its original statement share: such a request (of those
\* admitted) was answered 400 'not found', and a request answered 'not found'
\* made no unit of work and no semaphore.
UnknownLimiterRejected(c, admitted) ==
    /\ (NamesUnknownLimiter(c) /\ admitted) =>
            call[c].response.status = 400 /\ call[c].response.kind = "not_found"
    /\ (call[c].pc = "responded" /\ call[c].response.kind = "not_found") =>
            /\ call[c].response.status = 400
            /\ call[c].request.external_semaphore_id # None
            /\ unit[c] = << >>
            /\ ~sem[c].init
            /\ call[c].response.successful_results = << >>
            /\ call[c].response.failed_results = << >>

\* C14 (with the precondition the handler puts first: the request's
\* credentials resolve): a non-empty enhanced request naming an id that is
\* not registered is answered 400 'not found' as a whole, with no unit of
\* work, no invoker call and no slot taken on any semaphore, and the step
\* that answers it leaves the registry and the process-wide semaphore as
\* they were: nothing is created for the unknown id.
C14_UnknownLimiterWithCredentials ==
    /\ [](\A c \in Calls : UnknownLimiterRejected(c, Resolves(c)))
    /\ [][ \A c \in Calls :
                (/\ call[c].pc = "idle"
                 /\ call'[c].origin = "enhanced"
                 /\ Len(call'[c].request.tasks) > 0
                 /\ ~GetCredentialsFromRequest(config, call'[c].request.header,
                        call'[c].request.payload_credentials).error
                 /\ call'[c].request.external_semaphore_id # None
                 /\ \A id \in SemaphoreIds :
                        call'[c].request.external_semaphore_id = id =>
                            ~global_semaphores[id].init) =>
                    /\ call'[c].pc = "responded"
                    /\ call'[c].response.status = 400
                    /\ call'[c].response.kind = "not_found"
                    /\ unit'[c] = << >>
                    /\ sem' = [sem EXCEPT ![c] = NoSem]
                    /\ global_semaphores' = global_semaphores
                    /\ global_semaphore' = global_semaphore
                    /\ created' = created ]_vars

\* C14: a request of two tasks naming an unregistered id was answered 400
\* while the process-wide semaphore existed.
C14_Witness ==
    \E c \in Calls :
        /\ NamesUnknownLimiter(c)
        /\ Len(call[c].request.tasks) >= 2
        /\ call[c].response.status = 400
        /\ call[c].response.kind = "not_found"
        /\ global_semaphore.init
        /\ unit[c] = << >>

\* C14 as stated, for every non-empty request naming an unknown id: HTTP 400
\* 'not found', nothing attempted.
C14_UnknownLimiterGives400 ==
    \A c \in Calls : UnknownLimiterRejected(c, TRUE)

\* The step answers a request with tasks that names no external semaphore,
\* taken while the process-wide semaphore is None (before startup_event ran
\* or after shutdown_event), for the requests admitted: the answer is 500
\* 'semaphore not initialized', with no unit of work and no semaphore made.
NotInitializedStep(c, admitted) ==
    (/\ call[c].pc = "idle"
     /\ call'[c].origin \in {"main", "enhanced", "legacy"}
     /\ Len(call'[c].request.tasks) > 0
     /\ call'[c].request.external_semaphore_id = None
     /\ ~global_semaphore.init
     /\ admitted) =>
        /\ call'[c].pc = "responded"
        /\ call'[c].response.status = 500
        /\ call'[c].response.kind = "not_initialized"
        /\ unit'[c] = << >>
        /\ sem' = [sem EXCEPT ![c] = NoSem]
        /\ global_semaphore' = global_semaphore

\* C15 (with the precondition the handlers put first: the request's
\* credentials resolve): a non-empty request that names no external
\* semaphore and arrives while the process-wide semaphore is None is
\* answered at once with 500 'semaphore not initialized', no task
\* dispatched and no invoker call made; and whatever was answered 'not
\* initialized' ran no unit of work.
C15_NotInitializedWithCredentials ==
    /\ [](\A c \in Calls :
            (call[c].pc = "responded"
             /\ call[c].response.kind = "not_initialized") =>
                /\ call[c].response.status = 500
                /\ Len(call[c].request.tasks) > 0
                /\ call[c].request.external_semaphore_id = None
                /\ unit[c] = << >>
                /\ ~sem[c].init)
    /\ [][ \A c \in Calls : NotInitializedStep(c, Resolves(c)') ]_vars

\* C15: after shutdown, a request of two tasks to the legacy endpoint was
\* answered 500 'semaphore not initialized'.
C15_Witness ==
    \E c \in Calls :
        /\ call[c].origin = "legacy"
        /\ call[c].pc = "responded"
        /\ call[c].response.kind = "not_initialized"
        /\ call[c].response.status = 500
        /\ Len(call[c].request.tasks) >= 2
        /\ phase = "stopped"

\* C15 as stated, for every non-empty request that names no external
\* semaphore while the process-wide one is None: 500 'not initialized'.
C15_NotInitializedGives500 ==
    [][ \A c \in Calls : NotInitializedStep(c, TRUE) ]_vars

\* Call c is an answered service request for which nothing resolves: no
\* server (environment) credentials, none complete in the payload.
Unresolvable(c) ==
    /\ call[c].origin \in {"main", "enhanced", "legacy"}
    /\ call[c].pc = "responded"
    /\ ~config.server_credentials
    /\ ~call[c].request.payload_credentials

\* C16: a request for which no credentials resolve is answered with the one
\* credential error (401, or 500 when the admin key matched), whatever its
\* tasks and its external semaphore id, with no unit of work, no invoker
\* call and no semaphore made or entered; and a library client whose
\* construction failed for empty credentials runs no batch.
C16_NoCredentialsNoDispatch ==
    /\ \A c \in Calls :
            /\ Unresolvable(c) =>
                    /\ call[c].response.kind = "credentials"
                    /\ call[c].response.status
                            = IF config.admin_key # None
                                 /\ call[c].request.header = config.admin_key
                              THEN 500 ELSE 401
            /\ (call[c].pc = "responded"
                 /\ call[c].response.kind = "credentials") =>
                    /\ unit[c] = << >>
                    /\ ~sem[c].init
                    /\ call[c].results = << >>
                    /\ call[c].response.results = << >>
                    /\ call[c].response.successful_results = << >>
                    /\ call[c].response.failed_results = << >>
    /\ client.state = "init_failed" =>
            \A c \in Calls : call[c].pc = "idle" /\ unit[c] = << >>

\* C16: with the process-wide semaphore in place, a request of two tasks
\* without any credentials was answered 401.
C16_Witness ==
    \E c \in Calls :
        /\ Unresolvable(c)
        /\ Len(call[c].request.tasks) >= 2
        /\ call[c].response.status = 401
        /\ global_semaphore.init
        /\ unit[c] = << >>

\* The number of per-task entries an answer carries.
EntryCount(response) ==
    Len(response.results) + Len(response.successful_results)
        + Len(response.failed_results)

\* C17: every answered request with resolvable credentials and a non-empty
\* task list ends in exactly one of two ways: a full result set, one entry
\* per task, or no result set and one of the listed batch-level errors (the
\* external id is not registered, the semaphore is not initialized); never
\* an error from constructing the client or calling the executor.
C17_FullResultsOrListedError ==
    \A c \in Calls :
        (/\ call[c].origin \in {"main", "enhanced", "legacy"}
         /\ call[c].pc = "responded"
         /\ Len(call[c].request.tasks) > 0
         /\ Resolves(c)) =>
            \/ /\ call[c].response.kind = "results"
               /\ call[c].response.status = 200
               /\ EntryCount(call[c].response) = Len(call[c].request.tasks)
            \/ /\ call[c].response.kind \in {"not_found", "not_initialized"}
               /\ call[c].response.status \in {400, 500}
               /\ EntryCount(call[c].response) = 0

\* C18: when generate_batch_async has returned, every unit of work of the
\* batch has terminated: none is still to enter the semaphore, holds a slot
\* or is inside an invoker call, and the list returned has one finished
\* unit's result per unit, never a part of them.
C18_ReturnsAfterAllUnits ==
    \A c \in Calls :
        (call[c].pc = "returned"
         \/ (call[c].pc = "responded" /\ call[c].response.kind = "results")) =>
            /\ \A i \in UnitsOf(c) : unit[c][i].pc = "done"
            /\ NotEntered(c) = {}
            /\ InCall(c) = {}
            /\ Holders(c) = {}
            /\ Len(call[c].results) = Len(unit[c])
            /\ \A j \in 1..Len(call[c].results) : call[c].results[j] # NoResult
            /\ call[c].session \in {"none", "closed"}

\* C18: one batch of two has returned while another batch, one unit done
\* and one not yet started, is still awaited.
C18_Witness ==
    \E c \in Calls, d \in Calls :
        /\ call[c].pc = "returned" /\ Len(unit[c]) >= 2
        /\ call[d].pc = "running" /\ Len(unit[d]) >= 2
        /\ unit[d][1].pc = "done"
        /\ unit[d][2].pc = "spawned"

\* How many entries of seq carry task_index k.
IndexCount(seq, k) ==
    Cardinality({ j \in 1..Len(seq) : seq[j].task_index = k })

\* C19: the answer to an enhanced request that got past the handler's checks
\* lists every input position 0..n-1 in exactly one of successful_results
\* and failed_results, and its counts are: total_tasks the number of input
\* tasks, successful_count the number of tasks whose unit ended with audio,
\* failed_count the number whose unit ended with none, the two adding up to
\* total_tasks.
C19_CountsPartitionTasks ==
    \A c \in Calls :
        (/\ call[c].origin = "enhanced"
         /\ call[c].pc = "responded"
         /\ Resolves(c)
         /\ call[c].response.kind \notin {"not_found", "not_initialized"}) =>
            LET r == call[c].response
                n == Len(call[c].request.tasks)
            IN  /\ r.kind = "results"
                /\ r.total_tasks = n
                /\ \A k \in 0..(n - 1) :
                        IndexCount(r.successful_results, k)
                            + IndexCount(r.failed_results, k) = 1
                /\ Len(r.successful_results) + Len(r.failed_results) = n
                /\ r.successful_count
                        = Cardinality({ i \in UnitsOf(c) :
                              Len(unit[c][i].result.audio_base64) > 0 })
                /\ r.failed_count = n - r.successful_count
                /\ r.successful_count = Len(r.successful_results)
                /\ r.failed_count = Len(r.failed_results)

\* seq is in non-decreasing task_id order (Python's string comparison).
SortedByTaskId(seq) ==
    \A j \in 1..(Len(seq) - 1) : ~StrLess(seq[j + 1].task_id, seq[j].task_id)

\* The results of every batch call that returned are in task_id order.
ResultsSorted ==
    \A c \in Calls : call[c].pc = "returned" => SortedByTaskId(call[c].results)

\* C20: the list generate_batch_async returns is in non-decreasing task_id
\* order whatever the input order, and that order is the one its callers
\* rely on: pairing the tasks submitted with the results returned position
\* by position, as zip(request.tasks, client_results) does, pairs every task
\* with the result that carries its id.
C20_SortedOrderServesCallers ==
    /\ ResultsSorted
    /\ \A c \in Calls :
            call[c].pc = "returned" =>
                \A i \in 1..Len(call[c].results) :
                    call[c].results[i].task_id = call[c].tasks[i].task_id

\* The answer is one of the provider's failure modes: a transport error, a
\* non-success HTTP status, or a body whose code is not 3000 or that has no
\* data.
IsFailureMode(resp) ==
    \/ resp.transport # "ok"
    \/ resp.status >= 400
    \/ resp.code # 3000
    \/ ~resp.hasData

\* C21: a bound invoker call that is not cancelled raises for each of the three failure modes and
\* returns bytes (the decoded data) only for an answer with a success status,
\* code 3000 and data; and the unit of work turns every failure mode into the
\* same outcome, the task's id with an empty payload, so that a payload with
\* audio comes only from a success status, code 3000 and data.
C21_FailureModesGiveEmptyOutcome ==
    LET resp == invocation.resp
        result == invocation.u.result
    IN  invocation.outcome.exc # "CancelledError" =>
        /\ invocation.pc \in {"answered", "done"} =>
                /\ invocation.outcome.raised <=> IsFailureMode(resp)
                /\ invocation.outcome.raised =>
                        invocation.outcome.exc = "Exception"
                /\ ~invocation.outcome.raised =>
                        invocation.outcome.bytes = B64Decode(resp.data)
        /\ invocation.pc = "done" =>
                /\ ~invocation.u.raised
                /\ result.task_id = invocation.task.task_id
                /\ IsFailureMode(resp) =>
                        result = TaskResult(invocation.task.task_id, << >>)
                /\ Len(result.audio_base64) > 0 =>
                        /\ resp.transport = "ok" /\ resp.status = 200
                        /\ resp.code = 3000 /\ resp.hasData

\* A unit ended with its task's id and an empty payload after the provider
\* answered status 200 with an error code in the body, data present.
C21_Witness ==
    /\ invocation.pc = "done"
    /\ invocation.resp.transport = "ok"
    /\ invocation.resp.status = 200
    /\ invocation.resp.code = 3001
    /\ invocation.resp.hasData
    /\ invocation.u.result = TaskResult(invocation.task.task_id, << >>)
\* C22: a batch call with tasks creates exactly one session and an empty one
\* none; every unit of the batch was handed that one session; the session is
\* open as long as the call runs, and once it is closed every unit of the
\* batch has ended: none is still to start, waits for a slot or is inside
\* an invoker call.
C22_OneSessionClosedAfterUnits ==
    \A c \in Calls :
        /\ call[c].sessions = (IF Len(call[c].tasks) > 0 THEN 1 ELSE 0)
        /\ \A i \in UnitsOf(c) : unit[c][i].session = call[c].sessions
        /\ call[c].pc = "running" => call[c].session = "open"
        /\ call[c].session = "closed" =>
                \A i \in UnitsOf(c) : unit[c][i].pc = "done"
        /\ (call[c].pc = "returned" /\ Len(call[c].tasks) > 0) =>
                call[c].session = "closed"

\* A batch of two tasks has returned and closed its one session, which both
\* units were handed, while another batch still runs with its session open
\* and a unit that has not started.
C22_Witness ==
    \E c, d \in Calls :
        /\ call[c].pc = "returned"
        /\ Len(unit[c]) = 2
        /\ call[c].session = "closed"
        /\ call[c].sessions = 1
        /\ unit[c][1].session = 1 /\ unit[c][2].session = 1
        /\ call[d].pc = "running"
        /\ call[d].session = "open"
        /\ \E i \in UnitsOf(d) : unit[d][i].pc = "spawned"
\* C23: within a batch call every unit of work evaluates the invoker call
\* exactly once, for its own task: none before the unit has entered the
\* semaphore block, one from then on, also after the call failed; and when
\* the batch has returned there is one unit per task and each has made its
\* one call, so no task was skipped and none called twice.
C23_OneInvokerCallPerTask ==
    \A c \in Calls :
        /\ Len(unit[c]) = Len(call[c].tasks)
        /\ \A i \in UnitsOf(c) :
                /\ unit[c][i].pc \in {"spawned", "waiting"} => unit[c][i].calls = 0
                /\ unit[c][i].pc \in {"in_call", "done"} => unit[c][i].calls = 1
        /\ call[c].pc = "returned" =>
                \A i \in 1..Len(call[c].tasks) :
                    /\ unit[c][i].calls = 1
                    /\ unit[c][i].result.task_id = call[c].tasks[i].task_id

\* A batch of two tasks has returned; the invoker call of each of its units
\* failed and was made once.
C23_Witness ==
    \E c \in Calls :
        /\ call[c].pc = "returned"
        /\ Len(call[c].tasks) = 2
        /\ \A i \in UnitsOf(c) :
                unit[c][i].callRaised /\ unit[c][i].calls = 1
C25_ReadsLeaveLimitersUnchanged ==
    /\ [](global_semaphore.init =>
            /\ global_semaphore.cap = DEFAULT_GLOBAL_CONCURRENCY
            /\ global_semaphore.value = global_semaphore.cap)
    /\ [][ /\ (ReadRoot \/ ListSemaphores) =>
                UNCHANGED << global_semaphore, global_semaphores, created,
                             executor, client, phase, config >>
           /\ ReadRoot =>
                /\ admin_response'.current_available_slots =
                        (IF global_semaphore.init THEN global_semaphore.value
                         ELSE NotInitializedSlots)
                /\ admin_response'.count =
                        Cardinality({ id \in SemaphoreIds :
                                        global_semaphores[id].init })
           /\ ListSemaphores =>
                /\ admin_response'.all_semaphores =
                        { id \in SemaphoreIds : global_semaphores[id].init }
                /\ admin_response'.count =
                        Cardinality(admin_response'.all_semaphores) ]_vars

\* GET / was answered by a started service with one registered semaphore,
\* after a batch request had been answered: all the slots of the process-wide
\* semaphore are reported free and the registered semaphore is as it was
\* created.
C25_Witness ==
    /\ admin_response.kind = "health"
    /\ phase = "started"
    /\ admin_response.current_available_slots = DEFAULT_GLOBAL_CONCURRENCY
    /\ admin_response.count = 1
    /\ \A id \in SemaphoreIds :
            global_semaphores[id].init
            /\ global_semaphores[id].value = global_semaphores[id].cap
    /\ \E c \in Calls : call[c].pc = "responded"
\* C26: a POST /_admin/semaphores changes the registry only in a service
\* that has an admin key configured (no header can equal a key that is not
\* configured), and a request that is answered 401 leaves the registry as it
\* was.
C26_RegistrationIsAdminOnly ==
    [][ RegisterSemaphore =>
            /\ (global_semaphores' # global_semaphores \/ created' # created)
                    => config.admin_key # None
            /\ admin_response'.status = 401 =>
                    UNCHANGED << global_semaphores, created >> ]_vars
C28_SuccessFlagAndEntryFields ==
    \A c \in Calls :
        (/\ call[c].origin = "enhanced"
         /\ call[c].pc = "responded"
         /\ call[c].response.kind = "results") =>
            LET r == call[c].response
                tasks == call[c].request.tasks
            IN  /\ r.success <=> r.failed_count = 0
                /\ r.successful_count = Len(r.successful_results)
                /\ r.failed_count = Len(r.failed_results)
                /\ \A j \in 1..Len(r.successful_results) :
                        /\ r.successful_results[j].success
                        /\ Len(r.successful_results[j].audio_base64) > 0
                /\ \A j \in 1..Len(r.failed_results) :
                        LET e == r.failed_results[j]
                            k == e.task_index + 1
                        IN  /\ k \in 1..Len(tasks)
                            /\ e.prompt = tasks[k].prompt
                            /\ e.task_id = call[c].tasks[k].task_id
                            /\ e.task_id # NoTaskId
                            /\ e.error # "none"
                            /\ e.output_filename.ext \in {".mp3", ".wav", ".m4a"}
                            /\ e.output_filename.name =
                                    (IF tasks[k].output_filename = NoFilename
                                     THEN "generated_audio"
                                     ELSE tasks[k].output_filename.name)
                            /\ e.output_filename.index =
                                    (IF tasks[k].output_filename = NoFilename
                                     THEN k ELSE 0)

\* An enhanced answer with one successful and one failed entry: success is
\* false, and the failed entry names a file given without extension.
C28_Witness ==
    \E c \in Calls :
        /\ call[c].origin = "enhanced"
        /\ call[c].pc = "responded"
        /\ call[c].response.kind = "results"
        /\ ~call[c].response.success
        /\ call[c].response.successful_count = 1
        /\ call[c].response.failed_count = 1
        /\ call[c].response.failed_results[1].output_filename
                = [name |-> "a", index |-> 0, ext |-> ".mp3"]
        /\ call[c].request.tasks[
                call[c].response.failed_results[1].task_index + 1
            ].output_filename = [name |-> "a", index |-> 0, ext |-> ""]
\* C29: the limit in the answer to an accepted registration is the capacity
\* of the semaphore that is registered under the id from then on, the one
\* register_global_semaphore handed the handler.
C29_ReportedLimitIsCapacity ==
    (/\ admin_response.kind = "register"
     /\ admin_response.status = 200) =>
        /\ admin_response.semaphore.init
        /\ admin_response.limit = admin_response.semaphore.cap
C31_EveryBatchCallReturns ==
    \A c \in Calls :
        /\ (call[c].pc = "running") ~>
                (/\ call[c].pc \in {"returned", "responded"}
                 /\ GatherDone(unit[c])
                 /\ Holders(c) = {})
        /\ \A i \in 1..MaxTasks :
                (i \in UnitsOf(c) /\ unit[c][i].pc \in {"spawned", "waiting"}) ~>
                    (i \in UnitsOf(c) /\ unit[c][i].pc = "done")

\* C31: two batches, each of more tasks than its limiter has slots, were
\* started and both have returned, every unit having had its slot and every
\* slot free again.
C31_Witness ==
    \A c \in Calls :
        /\ call[c].pc = "returned"
        /\ Len(unit[c]) > sem[c].cap
        /\ sem[c].cap >= 1
        /\ sem[c].value = sem[c].cap
        /\ \A i \in UnitsOf(c) : unit[c][i].acquires = 1

====
